---- MODULE Spec2Model ----
(***************************************************************************)
(* Model of app.py: the /quote handlers (quote_get, quote_post), the batch *)
(* helper process_symbols and the per-symbol adapter fetch_stock_data.     *)
(*                                                                         *)
(* Conventions.                                                            *)
(*  - A Python str is a sequence of one-character strings.                 *)
(*  - An optional value (the result of dict.get) is <<>> for None (key     *)
(*    missing or null) and <<v>> for the value v.                          *)
(*  - Floats that round() produces are kept as scaled integers:            *)
(*    change_percent in units of 10^-ChangeDigits, relative_volume in      *)
(*    units of 10^-VolumeDigits.                                           *)
(*  - The handlers are async views; Flask is taken to be installed with    *)
(*    its async extra, so a view runs to its return or to an exception,    *)
(*    and an exception leaving a view is answered 500.                     *)
(***************************************************************************)
EXTENDS Integers, Sequences, FiniteSets, TLC

\* ------------------------------------------------------------------ bounds
MaxRaw == 3         \* longest symbols query string of a GET
MaxLen == 2         \* longest symbols list of a POST body or a direct call
MaxSmallBatch == 2  \* batch_size values 1..MaxSmallBatch are tried besides the default

\* ------------------------------------------------------- program constants
DefaultBatchSize == 100
ChangeDigits == 4
VolumeDigits == 2

\* ----------------------------------------------------------------- strings
Chars == {"a", "B", " ", ","}

RECURSIVE SeqsUpTo(_, _)
SeqsUpTo(S, n) ==
    IF n = 0 THEN {<<>>}
    ELSE LET shorter == SeqsUpTo(S, n - 1)
         IN  shorter \cup {Append(s, x) : s \in shorter, x \in S}

\* str.split(","): one more piece than there are commas
RECURSIVE SplitComma(_)
SplitComma(s) ==
    IF s = <<>> THEN << <<>> >>
    ELSE LET rest == SplitComma(Tail(s))
         IN  IF Head(s) = ","
             THEN << <<>> >> \o rest
             ELSE << <<Head(s)>> \o Head(rest) >> \o Tail(rest)

RECURSIVE LStrip(_)
LStrip(s) == IF s # <<>> /\ Head(s) = " " THEN LStrip(Tail(s)) ELSE s

RECURSIVE RStrip(_)
RStrip(s) ==
    IF s # <<>> /\ s[Len(s)] = " " THEN RStrip(SubSeq(s, 1, Len(s) - 1)) ELSE s

\* str.strip()
Strip(s) == RStrip(LStrip(s))

UpperChar(c) == IF c = "a" THEN "A" ELSE c

\* str.upper()
Upper(s) == IF s = <<>> THEN <<>> ELSE [k \in 1..Len(s) |-> UpperChar(s[k])]

\* -------------------------------------------------------- optional values
None == <<>>
Some(v) == <<v>>

\* Python truthiness of an optional number / an optional str
TruthyNum(x) == x # None /\ x[1] # 0
TruthyStr(x) == x # None /\ x[1] # ""

\* a or b
OrNum(a, b) == IF TruthyNum(a) THEN a ELSE b
OrStr(a, b) == IF TruthyStr(a) THEN a ELSE b

\* round(n / d, digits) for d > 0, as an integer count of 10^-digits units;
\* ties go to the even neighbour
RoundScaled(n, d, digits) ==
    LET num == n * (10 ^ digits)
        q   == num \div d
        r   == num % d
    IN  IF 2 * r < d THEN q
        ELSE IF 2 * r > d THEN q + 1
        ELSE IF q % 2 = 0 THEN q ELSE q + 1

\* ------------------------------------------------------- fetch_stock_data
\* ticker.info: a loosely typed field bag; each field is an optional value
InfoBag(cp, rmp, vol, rvol, avg, prev, rprev, lname, sname, op, rop, hi) ==
    [ currentPrice |-> cp, regularMarketPrice |-> rmp,
      volume |-> vol, regularMarketVolume |-> rvol,
      averageDailyVolume10Day |-> avg,
      previousClose |-> prev, regularMarketPreviousClose |-> rprev,
      longName |-> lname, shortName |-> sname,
      open |-> op, regularMarketOpen |-> rop,
      dayHigh |-> hi, regularMarketDayHigh |-> Some(112),
      dayLow |-> Some(0), regularMarketDayLow |-> Some(98),
      marketCap |-> Some(5000), floatShares |-> None,
      trailingPE |-> Some(30), forwardPE |-> None,
      dividendYield |-> Some(0),
      fiftyTwoWeekHigh |-> Some(150), fiftyTwoWeekLow |-> Some(90),
      sector |-> Some("Technology"), industry |-> None,
      country |-> Some("United States") ]

\* what fetch_stock_data returns when it returns None
NoneResult == [kind |-> "None"]

\* lines 26-28
ChangePercent(price, prev_close) ==
    IF TruthyNum(price) /\ TruthyNum(prev_close) /\ prev_close[1] # 0
    THEN Some(RoundScaled((price[1] - prev_close[1]) * 100, prev_close[1], ChangeDigits))
    ELSE None

\* lines 31-33
RelativeVolume(volume, avg_volume) ==
    IF TruthyNum(volume) /\ TruthyNum(avg_volume) /\ avg_volume[1] # 0
    THEN Some(RoundScaled(volume[1], avg_volume[1], VolumeDigits))
    ELSE None

\* lines 35-56
QuoteDict(symbol, info, price, volume, avg_volume, prev_close) ==
    [ kind |-> "dict",
      symbol |-> symbol,
      name |-> OrStr(info.longName, info.shortName),
      price |-> price,
      open |-> OrNum(info.open, info.regularMarketOpen),
      high |-> OrNum(info.dayHigh, info.regularMarketDayHigh),
      low |-> OrNum(info.dayLow, info.regularMarketDayLow),
      volume |-> volume,
      avg_volume |-> avg_volume,
      change_percent |-> ChangePercent(price, prev_close),
      market_cap |-> info.marketCap,
      shares_float |-> info.floatShares,
      relative_volume |-> RelativeVolume(volume, avg_volume),
      pe_ratio |-> info.trailingPE,
      forward_pe |-> info.forwardPE,
      dividend_yield |-> info.dividendYield,
      fifty_two_week_high |-> info.fiftyTwoWeekHigh,
      fifty_two_week_low |-> info.fiftyTwoWeekLow,
      sector |-> info.sector,
      industry |-> info.industry,
      country |-> info.country ]

\* The provider's answer to one lookup (yf.Ticker(symbol).info): an info bag,
\* or an exception.
Raises == [kind |-> "raise"]
Answers(info) == [kind |-> "info", info |-> info]

\* fetch_stock_data(symbol), given what the provider answered
fetch_stock_data(symbol, answer) ==
    IF answer.kind = "raise" THEN NoneResult
    ELSE LET info  == answer.info
             price == OrNum(info.currentPrice, info.regularMarketPrice)
         IN  IF ~TruthyNum(price) THEN NoneResult
             ELSE QuoteDict(symbol, info, price,
                            OrNum(info.volume, info.regularMarketVolume),
                            info.averageDailyVolume10Day,
                            OrNum(info.previousClose, info.regularMarketPreviousClose))

\* ------------------------------------------------------------------- state
VARIABLES
    pc,           \* where the request in progress stands: "idle", "loop", "tasks",
                  \* "lookup", "hung", "done"
    request,      \* the request as received
    symbol_list,  \* process_symbols' argument symbols
    batch_size,   \* process_symbols' argument batch_size
    i,            \* the loop variable of line 68
    tasks,        \* the list the comprehension of line 70 has built so far
    results,      \* line 67
    outcome,      \* of the process_symbols call: "none", "returned", "raised"
    response,     \* the HTTP response of the handler
    issued,       \* history: the input positions (1-based) whose provider lookup began
    provided,     \* history: what the provider answered, per lookup
    inflight,     \* history: provider lookups begun and not yet answered
    fpc,          \* a lone fetch_stock_data call: "off", "call", "lookup", "returned"
    fanswer,      \* the provider's answer of the lone call
    quote         \* what the lone call returned

vars == << pc, request, symbol_list, batch_size, i, tasks, results, outcome,
           response, issued, provided, inflight, fpc, fanswer, quote >>

callVars == << pc, request, symbol_list, batch_size, i, tasks, results, outcome,
               response, issued, provided, inflight >>

fetchVars == << fpc, fanswer, quote >>

\* ------------------------------------------------------------------ inputs
Symbols == {<<"A">>, <<"B">>}

\* GET /quote: the symbols query parameter, absent or a string
GetRequests ==
    {[method |-> "GET", present |-> FALSE, raw |-> <<>>]}
    \cup {[method |-> "GET", present |-> TRUE, raw |-> r] : r \in SeqsUpTo(Chars, MaxRaw)}

\* entries of a JSON symbols list: strings, and values that are not strings
StrEntry(s) == [str |-> TRUE, val |-> s]
NonStrEntry == [str |-> FALSE, val |-> <<>>]
PostEntries ==
    {StrEntry(<<"a">>), StrEntry(<<" ", "B">>), StrEntry(<<" ">>), StrEntry(<<>>),
     NonStrEntry}

\* POST /quote: json is "none" (get_json gives None), "empty" ({}), "nokey"
\* (an object without the symbols key) or "symbols" (an object with it)
PostRequests ==
    {[method |-> "POST", json |-> j, list |-> <<>>] : j \in {"none", "empty", "nokey"}}
    \cup {[method |-> "POST", json |-> "symbols", list |-> l] :
            l \in SeqsUpTo(PostEntries, MaxLen)}

BatchSizes == (1..MaxSmallBatch) \cup {DefaultBatchSize}

GoodInfo ==
    InfoBag(Some(110), None, Some(50), None, Some(200), Some(100), None,
            Some("Apple Inc."), None, Some(108), None, Some(111))
NoPriceInfo ==
    InfoBag(None, None, Some(50), None, Some(200), Some(100), None,
            Some("Apple Inc."), None, Some(108), None, Some(111))

\* what the provider may answer to a lookup of a batch
SampleAnswers == {Answers(GoodInfo), Answers(NoPriceInfo), Raises}

\* ---------------------------------------------------------------- handlers
NoRequest == [method |-> "none"]
NoResponse == [code |-> 0, status |-> "", error |-> "", count |-> 0, data |-> <<>>]

\* jsonify({"error": msg}), 400
BadRequest(msg) == [code |-> 400, status |-> "", error |-> msg, count |-> 0, data |-> <<>>]

\* lines 88-92, 107-111
Success(res) ==
    [code |-> 200, status |-> "success", error |-> "", count |-> Len(res), data |-> res]

\* an exception left the view
ServerError == [code |-> 500, status |-> "", error |-> "", count |-> 0, data |-> <<>>]

\* line 85 without its filter "if s.strip()"
NormalizeGetNoFilter(symbols) ==
    LET parts == SplitComma(symbols)
    IN  [k \in 1..Len(parts) |-> Upper(Strip(parts[k]))]

\* line 85
NormalizeGet(symbols) ==
    LET kept == SelectSeq(SplitComma(symbols), LAMBDA s : Strip(s) # <<>>)
    IN  IF kept = <<>> THEN <<>> ELSE [k \in 1..Len(kept) |-> Upper(Strip(kept[k]))]

\* line 104
NormalizePost(list) ==
    LET kept == SelectSeq(list, LAMBDA e : e.str /\ Strip(e.val) # <<>>)
    IN  IF kept = <<>> THEN <<>> ELSE [k \in 1..Len(kept) |-> Upper(Strip(kept[k].val))]

Init ==
    /\ pc = "idle"
    /\ request = NoRequest
    /\ symbol_list = <<>>
    /\ batch_size = DefaultBatchSize
    /\ i = 0
    /\ tasks = <<>>
    /\ results = <<>>
    /\ outcome = "none"
    /\ response = NoResponse
    /\ issued = <<>>
    /\ provided = <<>>
    /\ inflight = 0
    /\ fpc = "off"
    /\ fanswer = Raises
    /\ quote = NoneResult

\* entering process_symbols(symbols, bs): line 67
Call(req, symbols, bs) ==
    /\ request' = req
    /\ symbol_list' = symbols
    /\ batch_size' = bs
    /\ i' = 0
    /\ results' = <<>>
    /\ pc' = "loop"
    /\ UNCHANGED << tasks, outcome, response, issued, provided, inflight >>

Reject(req, msg) ==
    /\ request' = req
    /\ response' = BadRequest(msg)
    /\ pc' = "done"
    /\ UNCHANGED << symbol_list, batch_size, i, tasks, results, outcome, issued,
                    provided, inflight >>

\* GET /quote, up to the await of line 86
quote_get ==
    /\ pc = "idle"
    /\ \E req \in GetRequests :
         LET symbols == IF req.present THEN req.raw ELSE <<>>
         IN  IF symbols = <<>>
             THEN Reject(req, "symbols query param missing")
             ELSE Call(req, NormalizeGet(symbols), DefaultBatchSize)
    /\ UNCHANGED fetchVars

\* POST /quote, up to the await of line 105
quote_post ==
    /\ pc = "idle"
    /\ \E req \in PostRequests :
         IF req.json # "symbols"
         THEN Reject(req, "JSON body must include a 'symbols' list")
         ELSE Call(req, NormalizePost(req.list), DefaultBatchSize)
    /\ UNCHANGED fetchVars

\* process_symbols called by other code, with a batch_size of its choice
process_symbols ==
    /\ pc = "idle"
    /\ \E symbols \in SeqsUpTo(Symbols, MaxLen), bs \in BatchSizes :
         Call([method |-> "CALL"], symbols, bs)
    /\ UNCHANGED fetchVars

\* --------------------------------------------------------- process_symbols
Min(a, b) == IF a < b THEN a ELSE b

\* line 69: symbols[i : i + batch_size]
Batch == SubSeq(symbol_list, i + 1, Min(i + batch_size, Len(symbol_list)))

\* line 70 fetching batch[0] at every element
FirstOfBatch == i + 1

\* the input position (1-based) of the element the comprehension of line 70 is at
NextPosition == i + Len(tasks) + 1

\* line 68, the loop goes on: lines 69-70 begin
NextBatch ==
    /\ pc = "loop"
    /\ i < Len(symbol_list)
    /\ tasks' = <<>>
    /\ pc' = "tasks"
    /\ UNCHANGED << request, symbol_list, batch_size, i, results, outcome, response,
                    issued, provided, inflight >>
    /\ UNCHANGED fetchVars

\* line 70 starting a lookup for every input symbol without waiting for any
StartFetchFanOut ==
    /\ pc \in {"tasks", "lookup"}
    /\ Len(issued) < Len(symbol_list)
    /\ issued' = Append(issued, Len(issued) + 1)
    /\ inflight' = inflight + 1
    /\ pc' = "lookup"
    /\ UNCHANGED << request, symbol_list, batch_size, i, tasks, results, outcome,
                    response, provided >>
    /\ UNCHANGED fetchVars

\* line 70 calls fetch_stock_data(s) for the next s of the batch, a plain call:
\* the comprehension waits in it (lines 14-15) until the provider answers
StartFetch ==
    /\ pc = "tasks"
    /\ Len(tasks) < Len(Batch)
    /\ issued' = Append(issued, NextPosition)
    /\ inflight' = inflight + 1
    /\ pc' = "lookup"
    /\ UNCHANGED << request, symbol_list, batch_size, i, tasks, results, outcome,
                    response, provided >>
    /\ UNCHANGED fetchVars

\* the provider answers the lookup in flight; fetch_stock_data returns and its
\* value becomes the next element of tasks
ProviderAnswers ==
    /\ pc = "lookup"
    /\ \E answer \in SampleAnswers :
         /\ tasks' = Append(tasks, fetch_stock_data(symbol_list[issued[Len(issued)]], answer))
         /\ provided' = Append(provided, answer)
    /\ inflight' = inflight - 1
    /\ pc' = "tasks"
    /\ UNCHANGED << request, symbol_list, batch_size, i, results, outcome, response,
                    issued >>
    /\ UNCHANGED fetchVars

\* the provider never answers: ticker.info (line 15) has no timeout and no
\* other step of the call can run while the comprehension waits in it
ProviderHangs ==
    /\ pc = "lookup"
    /\ pc' = "hung"
    /\ UNCHANGED << request, symbol_list, batch_size, i, tasks, results, outcome,
                    response, issued, provided, inflight >>
    /\ UNCHANGED fetchVars

\* what asyncio.gather accepts: futures, coroutines, awaitables; a dict and None
\* are none of them
Awaitable(t) == t.kind \notin {"dict", "None"}

\* lines 71-72: gather raises TypeError on the first argument that is not
\* awaitable; the exception leaves process_symbols and the view
Gather ==
    /\ pc = "tasks"
    /\ Len(tasks) = Len(Batch)
    /\ IF \E k \in 1..Len(tasks) : ~Awaitable(tasks[k])
       THEN /\ outcome' = "raised"
            /\ response' = IF request.method = "CALL" THEN NoResponse ELSE ServerError
            /\ pc' = "done"
            /\ UNCHANGED << results, i >>
       ELSE /\ results' = results \o tasks
            /\ i' = i + batch_size
            /\ pc' = "loop"
            /\ UNCHANGED << outcome, response >>
    /\ UNCHANGED << request, symbol_list, batch_size, tasks, issued, provided, inflight >>
    /\ UNCHANGED fetchVars

\* line 68, the loop is over; line 73; then lines 88-92 or 107-111
Return ==
    /\ pc = "loop"
    /\ i >= Len(symbol_list)
    /\ outcome' = "returned"
    /\ response' = IF request.method = "CALL" THEN NoResponse ELSE Success(results)
    /\ pc' = "done"
    /\ UNCHANGED << request, symbol_list, batch_size, i, tasks, results, issued,
                    provided, inflight >>
    /\ UNCHANGED fetchVars

\* the server takes the next request
NextRequest ==
    /\ pc = "done"
    /\ pc' = "idle"
    /\ request' = NoRequest
    /\ symbol_list' = <<>>
    /\ batch_size' = DefaultBatchSize
    /\ i' = 0
    /\ tasks' = <<>>
    /\ results' = <<>>
    /\ outcome' = "none"
    /\ response' = NoResponse
    /\ issued' = <<>>
    /\ provided' = <<>>
    /\ inflight' = 0
    /\ UNCHANGED fetchVars

Next ==
    \/ quote_get
    \/ quote_post
    \/ process_symbols
    \/ NextBatch
    \/ StartFetch
    \/ ProviderAnswers
    \/ ProviderHangs
    \/ Gather
    \/ Return
    \/ NextRequest

Spec == Init /\ [][Next]_vars

\* ------------------------------------------- fetch_stock_data on its own
FetchSymbol == <<"A">>

\* the info bags a lone call is tried on
FetchAnswers ==
    {Raises} \cup
    { Answers(InfoBag(cp, rmp, vol, rvol, avg, prev, rprev, lname, sname, op, rop, hi)) :
        cp \in {None, Some(0), Some(110)}, rmp \in {None, Some(105)},
        vol \in {None, Some(0), Some(50)}, rvol \in {None, Some(0)},
        avg \in {None, Some(0), Some(200)},
        prev \in {None, Some(0), Some(100)}, rprev \in {None, Some(80)},
        lname \in {None, Some(""), Some("Apple Inc.")}, sname \in {None, Some("Apple")},
        op \in {None, Some(0), Some(108)}, rop \in {None, Some(107)},
        hi \in {Some(0), Some(111)} }

FetchInit ==
    /\ pc = "idle"
    /\ request = NoRequest
    /\ symbol_list = <<>>
    /\ batch_size = DefaultBatchSize
    /\ i = 0
    /\ tasks = <<>>
    /\ results = <<>>
    /\ outcome = "none"
    /\ response = NoResponse
    /\ issued = <<>>
    /\ provided = <<>>
    /\ inflight = 0
    /\ fpc = "call"
    /\ fanswer = Raises
    /\ quote = NoneResult

\* lines 14-15: the lookup, and what the provider answers to it
FetchLookup ==
    /\ fpc = "call"
    /\ \E answer \in FetchAnswers : fanswer' = answer
    /\ fpc' = "lookup"
    /\ UNCHANGED quote
    /\ UNCHANGED callVars

\* lines 17-60
FetchReturn ==
    /\ fpc = "lookup"
    /\ quote' = fetch_stock_data(FetchSymbol, fanswer)
    /\ fpc' = "returned"
    /\ UNCHANGED fanswer
    /\ UNCHANGED callVars

FetchNext == FetchLookup \/ FetchReturn

FetchSpec == FetchInit /\ [][FetchNext]_vars

\* ------------------------------------------------------------------ claims
Handled == pc = "done" /\ request.method \in {"GET", "POST"}

\* C1: for every non-empty normalized symbol list of a /quote request, the
\* response's data has the input's length and data[k] is the outcome of the
\* symbol at input position k.
C1_DataMatchesInput ==
    (Handled /\ symbol_list # <<>>) =>
        /\ response.code = 200
        /\ Len(response.data) = Len(symbol_list)
        /\ \A k \in 1..Len(response.data) :
             response.data[k].kind = "None" \/ response.data[k].symbol = symbol_list[k]

\* C2: a well-formed request (non-empty symbol list) ends with process_symbols
\* having returned normally, every input symbol looked up, and the answer 200,
\* whichever lookups raised or gave no price.
C2_FailuresNeverEscape ==
    (pc = "done" /\ symbol_list # <<>>) =>
        /\ outcome = "returned"
        /\ Len(issued) = Len(symbol_list)
        /\ request.method \in {"GET", "POST"} => response.code = 200

NoPrice(answer) ==
    /\ answer.kind = "info"
    /\ answer.info.currentPrice = None
    /\ answer.info.regularMarketPrice = None

\* C3: a symbol whose provider info has no price has an error-tagged entry
\* (carrying the symbol) at its position of data, and count is the number of
\* quote records in data.
C3_NoPriceIsErrorEntry ==
    (Handled /\ symbol_list # <<>>) =>
        /\ \A k \in 1..Len(provided) :
             NoPrice(provided[k]) =>
                 /\ k <= Len(response.data)
                 /\ response.data[k].kind = "error"
                 /\ response.data[k].symbol = symbol_list[issued[k]]
        /\ response.count =
             Cardinality({k \in 1..Len(response.data) : response.data[k].kind = "dict"})

Blank(s) == \A k \in 1..Len(s) : s[k] = " "

\* the requests C4 is about: no symbol can be resolved from them
NoResolvable(req) ==
    \/ /\ req.method = "GET"
       /\ ~req.present \/ \A k \in 1..Len(req.raw) : req.raw[k] \in {" ", ","}
    \/ /\ req.method = "POST"
       /\ \/ req.json # "symbols"
          \/ \A k \in 1..Len(req.list) : ~req.list[k].str \/ Blank(req.list[k].val)

\* the symbols parameter is missing or empty; the body has no symbols key
SymbolsMissing(req) ==
    \/ req.method = "GET" /\ (~req.present \/ req.raw = <<>>)
    \/ req.method = "POST" /\ req.json # "symbols"

C5_InFlightWithinBatchSize == inflight <= batch_size

C5_Witness == inflight = 1 /\ Len(symbol_list) > batch_size

\* C6: the sector/industry of a symbol is looked up upstream at most once:
\* no symbol has two provider lookups delivering its classification.
C6_OneClassificationLookup ==
    \A p \in 1..Len(symbol_list) :
        Cardinality({k \in 1..Len(issued) : symbol_list[issued[k]] = symbol_list[p]}) <= 1

\* C7: a lookup the provider never answers does not stop the call: some step
\* (a timeout resolving it to an error outcome) can still be taken.
C7_HungLookupTimesOut == pc = "hung" => ENABLED Next

\* the spec's choice of a field: the primary if present, else the secondary
PresentOr(a, b) == IF a # None THEN a ELSE b

Returned == fpc = "returned" /\ quote.kind = "dict"

\* C8: change_percent is absent exactly when previous close is missing or
\* zero and else is the rounded percentage; for a quote with a volume value,
\* relative_volume is absent exactly when average volume is missing or zero
\* and else is volume / averageVolume rounded to 2 places. Previous close is
\* the value line 23 settles on, volume the quote's own volume field.
C8_DerivedFields ==
    Returned =>
        LET info == fanswer.info
            prev == OrNum(info.previousClose, info.regularMarketPreviousClose)
            vol  == quote.volume
            avg  == info.averageDailyVolume10Day
        IN  /\ quote.change_percent = None <=> (prev = None \/ prev = Some(0))
            /\ quote.change_percent # None =>
                 quote.change_percent =
                     Some(RoundScaled((quote.price[1] - prev[1]) * 100, prev[1], ChangeDigits))
            /\ vol # None =>
                 /\ quote.relative_volume = None <=> (avg = None \/ avg = Some(0))
                 /\ quote.relative_volume # None =>
                      quote.relative_volume = Some(RoundScaled(vol[1], avg[1], VolumeDigits))

\* C9: each field with a primary and a secondary provider field holds the
\* primary value when it is present (zero included), else the secondary.
C9_PrimaryThenSecondary ==
    Returned =>
        LET info == fanswer.info
        IN  /\ quote.price = PresentOr(info.currentPrice, info.regularMarketPrice)
            /\ quote.volume = PresentOr(info.volume, info.regularMarketVolume)
            /\ quote.open = PresentOr(info.open, info.regularMarketOpen)
            /\ quote.high = PresentOr(info.dayHigh, info.regularMarketDayHigh)
            /\ quote.low = PresentOr(info.dayLow, info.regularMarketDayLow)
            /\ quote.name = PresentOr(info.longName, info.shortName)

====
